---- MODULE Spec2Model ----
(***************************************************************************)
(* State machine of the dashboard component App (src/src/App.tsx): the     *)
(* seven useState cells, the two mount-time queries (fetchLatestUsers,     *)
(* fetchUsers), the select's onChange handler and the dependent effect     *)
(* fetchData with its two parallel queries.                                *)
(***************************************************************************)
EXTENDS Integers, Sequences, FiniteSets, TLC

VARIABLES users, selectedEmail, feedback, items, loading, error, latestUsers,
          latestRes, usersRes, effectPending, fetches, resumed, triggers

vars == <<users, selectedEmail, feedback, items, loading, error, latestUsers,
          latestRes, usersRes, effectPending, fetches, resumed, triggers>>

\* ---------------------------------------------------------------- bounds
\* Selections (onChange events) are accepted while fewer than MaxFetches
\* events have triggered the detail fetch.
MaxFetches == 2

\* ------------------------------------------------------------ JS values
\* null, for the string-valued cells selectedEmail and error.
Null == "null"

\* The two user-visible messages.
FailedToLoadUsers == "Failed to load users"
FailedToLoadData == "Failed to load data"

\* A supabase response { data, error }: st is "error" when error is set and
\* "ok" otherwise; data is null (isNull) or an array of rows.  PendingRes
\* stands for a query whose promise has not resolved yet.
PendingRes == [st |-> "pending", isNull |-> TRUE, rows |-> <<>>]
ErrRes == [st |-> "error", isNull |-> TRUE, rows |-> <<>>]
NullRes == [st |-> "ok", isNull |-> TRUE, rows |-> <<>>]
OkRes(d) == [st |-> "ok", isNull |-> FALSE, rows |-> d]

\* `data || []`
OrEmpty(r) == IF r.isNull THEN <<>> ELSE r.rows

\* --------------------------------------------------- the remote tables
User(id, e) == [user_id |-> id, email |-> e]

\* user_profiles as returned ordered by email: two profiles share the
\* email "a", one has the email "b".
UserTables == { <<User(1, "a"), User(3, "a"), User(2, "b")>> }

\* Values the select's onChange (or any caller of setSelectedEmail) passes:
\* the placeholder "", loaded emails, and "A", equal to "a" only up to case.
Emails == {"", "a", "b", "A"}

\* Responses of the all-users and of the recent-users query.
UsersResponses == {ErrRes, NullRes} \cup {OkRes(t) : t \in UserTables}
LatestResponses == {ErrRes, NullRes, OkRes(<<User(2, "b"), User(1, "a")>>)}

\* The values of Feedback.was_correct (boolean | null, optional);
\* "undefined" is the absent field.
WasCorrectValues == <<"true", "false", "null", "undefined">>

\* Rows of transcript_feedback / stored_items for user_id u as returned to
\* the queries of fetchData run number n (every response is its own
\* snapshot of the table); the feedback rows carry every value of
\* was_correct.
FeedbackRows(u, n) ==
    [k \in 1..Len(WasCorrectValues) |->
        [table |-> "transcript_feedback", user_id |-> u, snap |-> n,
         was_correct |-> WasCorrectValues[k]]]
ItemRows(u, n) == <<[table |-> "stored_items", user_id |-> u, snap |-> n]>>

FeedbackResponses(u, n) == {ErrRes, NullRes, OkRes(FeedbackRows(u, n))}
ItemsResponses(u, n) == {ErrRes, NullRes, OkRes(ItemRows(u, n))}

\* ------------------------------------------------------------- helpers
\* !selectedEmail
Falsy(e) == e = Null \/ e = ""

\* Lower-casing of the emails of the model.
Lower(e) == IF e = "A" THEN "a" ELSE e

\* A lookup that ignores case.
FindIgnoreCase(us, e) ==
    IF \E k \in 1..Len(us) : Lower(us[k].email) = Lower(e)
    THEN CHOOSE k \in 1..Len(us) :
            /\ Lower(us[k].email) = Lower(e)
            /\ \A j \in 1..(k - 1) : Lower(us[j].email) # Lower(e)
    ELSE 0

\* A lookup that returns the last match.
FindLast(us, e) ==
    IF \E k \in 1..Len(us) : us[k].email = e
    THEN CHOOSE k \in 1..Len(us) :
            /\ us[k].email = e
            /\ \A j \in (k + 1)..Len(us) : us[j].email # e
    ELSE 0

\* users.find((u) => u.email === selectedEmail): the index of the first
\* match, 0 for undefined.
Find(us, e) ==
    IF \E k \in 1..Len(us) : us[k].email = e
    THEN CHOOSE k \in 1..Len(us) :
            /\ us[k].email = e
            /\ \A j \in 1..(k - 1) : us[j].email # e
    ELSE 0

\* f.was_correct as a condition: true is the only truthy value of the field.
Truthy(v) == v = "true"

\* A rendering with a third text for the unknown state.
WasCorrectTriState(v) ==
    IF v = "true" THEN "Yes" ELSE IF v = "false" THEN "No" ELSE "Unknown"

\* {f.was_correct ? 'Yes' : 'No'}, the texts without their emoji prefix.
WasCorrectText(v) == IF Truthy(v) THEN "Yes" ELSE "No"

\* The "Was Correct" line of every rendered feedback record.
FeedbackView == [k \in 1..Len(feedback) |-> WasCorrectText(feedback[k].was_correct)]

\* The select's options without repeated emails.
OptionsDistinct(us) ==
    LET F[k \in 0..Len(us)] ==
            IF k = 0 THEN <<"">>
            ELSE IF \E j \in 1..(k - 1) : us[j].email = us[k].email
                 THEN F[k - 1]
                 ELSE Append(F[k - 1], us[k].email)
    IN F[Len(us)]

\* Upper-casing of the emails of the model.
Upper(e) == IF e = "a" THEN "A" ELSE e

\* Options whose values are the emails in upper case.
OptionsUpper(us) == <<"">> \o [k \in 1..Len(us) |-> Upper(us[k].email)]

\* The values of the select's options: the placeholder's "" and then
\* users.map((user) => <option value={user.email}>).
Options(us) == <<"">> \o [k \in 1..Len(us) |-> us[k].email]

\* The useState cells as one record, and their assignment.
Cells ==
    [users |-> users, selectedEmail |-> selectedEmail, feedback |-> feedback,
     items |-> items, loading |-> loading, error |-> error,
     latestUsers |-> latestUsers]

SetCells(c) ==
    /\ users' = c.users
    /\ selectedEmail' = c.selectedEmail
    /\ feedback' = c.feedback
    /\ items' = c.items
    /\ loading' = c.loading
    /\ error' = c.error
    /\ latestUsers' = c.latestUsers

Init ==
    /\ users = <<>>
    /\ selectedEmail = Null
    /\ feedback = <<>>
    /\ items = <<>>
    /\ loading = FALSE
    /\ error = Null
    /\ latestUsers = <<>>
    /\ latestRes = PendingRes
    /\ usersRes = PendingRes
    /\ effectPending = FALSE
    /\ fetches = <<>>
    /\ resumed = [run |-> 0, fb |-> PendingRes, it |-> PendingRes]
    /\ triggers = 0

\* --------------------------------------------------- mount-time queries
\* fetchLatestUsers with a visible error, as fetchUsers has.
FetchLatestUsersLoud(r, c) ==
    IF r.st = "error"
    THEN [c EXCEPT !.error = FailedToLoadUsers]
    ELSE [c EXCEPT !.latestUsers = OrEmpty(r)]

\* fetchLatestUsers after its await: the cells after response r.
FetchLatestUsers(r, c) ==
    IF r.st = "error"
    THEN c
    ELSE [c EXCEPT !.latestUsers = OrEmpty(r)]

LatestUsersResponse(r) ==
    /\ latestRes.st = "pending"
    /\ ~effectPending
    /\ latestRes' = r
    /\ SetCells(FetchLatestUsers(r, Cells))
    /\ UNCHANGED <<usersRes, effectPending, fetches, resumed, triggers>>

\* fetchUsers that also clears the message on success.
FetchUsersClearing(r, c) ==
    IF r.st = "error"
    THEN [c EXCEPT !.error = FailedToLoadUsers]
    ELSE [c EXCEPT !.users = OrEmpty(r), !.error = Null]

\* A fetchUsers that stores its result only once the recent users are in.
FetchUsersDependent(r, c) ==
    IF r.st = "error"
    THEN [c EXCEPT !.error = FailedToLoadUsers]
    ELSE IF Len(c.latestUsers) = 0
         THEN c
         ELSE [c EXCEPT !.users = OrEmpty(r)]

\* fetchUsers after its await: the cells after response r.
FetchUsers(r, c) ==
    IF r.st = "error"
    THEN [c EXCEPT !.error = FailedToLoadUsers]
    ELSE [c EXCEPT !.users = OrEmpty(r)]

\* setUsers(data || []) stores a fresh array, so the effect with
\* dependencies [selectedEmail, users] is scheduled on every success; it is
\* a triggering event of the detail fetch when an email is selected.
UsersResponse(r) ==
    /\ usersRes.st = "pending"
    /\ ~effectPending
    /\ usersRes' = r
    /\ SetCells(FetchUsers(r, Cells))
    /\ effectPending' = (r.st # "error")
    /\ triggers' = IF r.st # "error" /\ ~Falsy(selectedEmail)
                   THEN triggers + 1 ELSE triggers
    /\ UNCHANGED <<latestRes, fetches, resumed>>

\* ------------------------------------------------------------ selection
\* onChange={(e) => setSelectedEmail(e.target.value)}; setting the value
\* the cell already holds renders nothing and schedules no effect.
SelectUser(e) ==
    /\ ~effectPending
    /\ triggers < MaxFetches
    /\ e # selectedEmail
    /\ selectedEmail' = e
    /\ effectPending' = TRUE
    /\ triggers' = IF Falsy(e) THEN triggers ELSE triggers + 1
    /\ UNCHANGED <<users, feedback, items, loading, error, latestUsers,
                   latestRes, usersRes, fetches, resumed>>

\* The user picks an option of the select: the change event carries the
\* value of one of the rendered options, and fires only when it differs
\* from the value shown, selectedEmail || ''.
SelectOption(e) ==
    /\ \E k \in 1..Len(Options(users)) : Options(users)[k] = e
    /\ e # (IF selectedEmail = Null THEN "" ELSE selectedEmail)
    /\ SelectUser(e)

\* ----------------------------------------------------------- fetchData
\* One run of fetchData past its first line: the selection it ran with, the
\* user_id filters of the two queries it issued (0: not issued), their
\* responses and how the run ended.
NotFoundRun(e) ==
    [email |-> e, fbUid |-> 0, itUid |-> 0, fb |-> PendingRes,
     it |-> PendingRes, status |-> "notfound"]

IssuedRun(e, u) ==
    [email |-> e, fbUid |-> u, itUid |-> u, fb |-> PendingRes,
     it |-> PendingRes, status |-> "inflight"]

\* A fetchData that resets the lists and the message when the selection
\* is empty.
FetchDataClearing ==
    /\ effectPending
    /\ effectPending' = FALSE
    /\ IF Falsy(selectedEmail)
       THEN /\ SetCells([Cells EXCEPT !.feedback = <<>>, !.items = <<>>,
                                      !.error = Null])
            /\ UNCHANGED fetches
       ELSE LET k == Find(users, selectedEmail) IN
            IF k = 0
            THEN /\ SetCells([Cells EXCEPT !.error = FailedToLoadData,
                                           !.loading = FALSE])
                 /\ fetches' = Append(fetches, NotFoundRun(selectedEmail))
            ELSE /\ SetCells([Cells EXCEPT !.loading = TRUE,
                                           !.error = Null])
                 /\ fetches' = Append(fetches,
                        IssuedRun(selectedEmail, users[k].user_id))
    /\ UNCHANGED <<latestRes, usersRes, resumed, triggers>>

\* The effect of [selectedEmail, users]: fetchData up to its await.  Passive
\* effects are flushed before the next event is handled, so every other
\* action waits for it.
FetchData ==
    /\ effectPending
    /\ effectPending' = FALSE
    /\ IF Falsy(selectedEmail)
       THEN UNCHANGED <<users, selectedEmail, feedback, items, loading,
                        error, latestUsers, fetches>>
       ELSE LET k == Find(users, selectedEmail) IN
            IF k = 0
            THEN \* throw new Error('User not found'): catch, finally
                 /\ SetCells([Cells EXCEPT !.error = FailedToLoadData,
                                           !.loading = FALSE])
                 /\ fetches' = Append(fetches, NotFoundRun(selectedEmail))
            ELSE /\ SetCells([Cells EXCEPT !.loading = TRUE,
                                           !.error = Null])
                 /\ fetches' = Append(fetches,
                        IssuedRun(selectedEmail, users[k].user_id))
    /\ UNCHANGED <<latestRes, usersRes, resumed, triggers>>

\* A continuation that updates whichever list arrived.
ResolvePartial(fbRes, itRes, c) ==
    IF fbRes.st = "error" \/ itRes.st = "error"
    THEN [c EXCEPT !.feedback = IF fbRes.st = "error" THEN @ ELSE OrEmpty(fbRes),
                   !.items = IF itRes.st = "error" THEN @ ELSE OrEmpty(itRes),
                   !.error = FailedToLoadData,
                   !.loading = FALSE]
    ELSE [c EXCEPT !.feedback = OrEmpty(fbRes),
                   !.items = OrEmpty(itRes),
                   !.loading = FALSE]

\* A continuation that stores the feedback before it looks at the items
\* query's error.
ResolveFeedbackFirst(fbRes, itRes, c) ==
    IF fbRes.st = "error"
    THEN [c EXCEPT !.error = FailedToLoadData,
                   !.loading = FALSE]
    ELSE IF itRes.st = "error"
         THEN [c EXCEPT !.feedback = OrEmpty(fbRes),
                        !.error = FailedToLoadData,
                        !.loading = FALSE]
         ELSE [c EXCEPT !.feedback = OrEmpty(fbRes),
                        !.items = OrEmpty(itRes),
                        !.loading = FALSE]

\* A continuation whose setLoading(false) is not in a finally block.
ResolveNoFinally(fbRes, itRes, c) ==
    IF fbRes.st = "error" \/ itRes.st = "error"
    THEN [c EXCEPT !.error = FailedToLoadData]
    ELSE [c EXCEPT !.feedback = OrEmpty(fbRes),
                   !.items = OrEmpty(itRes),
                   !.loading = FALSE]

\* fetchData after `await Promise.all([...])`: the cells after the two
\* responses.
Resolve(fbRes, itRes, c) ==
    IF fbRes.st = "error" \/ itRes.st = "error"
    THEN [c EXCEPT !.error = FailedToLoadData,
                   !.loading = FALSE]
    ELSE [c EXCEPT !.feedback = OrEmpty(fbRes),
                   !.items = OrEmpty(itRes),
                   !.loading = FALSE]

RunStatus(f) ==
    IF f.fb.st = "error" \/ f.it.st = "error" THEN "failed" ELSE "ok"

\* A response the continuation has consumed.
DoneRes == [st |-> "done", isNull |-> TRUE, rows |-> <<>>]

\* The record of run f once it has resumed.
Ended(f) == [f EXCEPT !.status = RunStatus(f), !.fb = DoneRes, !.it = DoneRes]

\* The run that resumed last and the responses it resumed with.
Resumed(i, f) == [run |-> i, fb |-> f.fb, it |-> f.it]

\* A continuation that drops the responses of any run but the latest.
SettleTagged(i, f) ==
    /\ IF i = Len(fetches)
       THEN SetCells(Resolve(f.fb, f.it, Cells))
       ELSE SetCells([Cells EXCEPT !.loading = FALSE])
    /\ fetches' = [fetches EXCEPT ![i] = Ended(f)]
    /\ resumed' = Resumed(i, f)

\* A continuation that issues the two queries again after a failure.
SettleRetry(i, f) ==
    /\ SetCells(Resolve(f.fb, f.it, Cells))
    /\ fetches' =
         LET done == [fetches EXCEPT ![i] = Ended(f)]
         IN IF RunStatus(f) = "failed" /\ Len(fetches) <= MaxFetches
            THEN Append(done, IssuedRun(f.email, f.fbUid))
            ELSE done
    /\ resumed' = Resumed(i, f)

\* Run i, whose second response has just arrived (f: the run with both
\* responses), resumes after Promise.all.
Settle(i, f) ==
    /\ SetCells(Resolve(f.fb, f.it, Cells))
    /\ fetches' = [fetches EXCEPT ![i] = Ended(f)]
    /\ resumed' = Resumed(i, f)

\* A response arrives for run i; Promise.all resolves with the second one.
Arrive(i, f) ==
    IF f.fb.st # "pending" /\ f.it.st # "pending"
    THEN Settle(i, f)
    ELSE /\ fetches' = [fetches EXCEPT ![i] = f]
         /\ UNCHANGED <<users, selectedEmail, feedback, items, loading,
                        error, latestUsers, resumed>>

FeedbackResponse(i, r) ==
    /\ ~effectPending
    /\ i \in 1..Len(fetches)
    /\ fetches[i].status = "inflight"
    /\ fetches[i].fb.st = "pending"
    /\ r \in FeedbackResponses(fetches[i].fbUid, i)
    /\ Arrive(i, [fetches[i] EXCEPT !.fb = r])
    /\ UNCHANGED <<latestRes, usersRes, effectPending, triggers>>

ItemsResponse(i, r) ==
    /\ ~effectPending
    /\ i \in 1..Len(fetches)
    /\ fetches[i].status = "inflight"
    /\ fetches[i].it.st = "pending"
    /\ r \in ItemsResponses(fetches[i].itUid, i)
    /\ Arrive(i, [fetches[i] EXCEPT !.it = r])
    /\ UNCHANGED <<latestRes, usersRes, effectPending, triggers>>

\* Run numbers that can occur: MaxFetches selections and the load of users.
Runs == 1..(MaxFetches + 1)

\* Every response any run can receive.
AllResponses ==
    {ErrRes, NullRes}
        \cup UNION {{OkRes(FeedbackRows(u, n)), OkRes(ItemRows(u, n))} :
                        u \in 1..3, n \in Runs}

Next ==
    \/ \E r \in LatestResponses : LatestUsersResponse(r)
    \/ \E r \in UsersResponses : UsersResponse(r)
    \/ \E e \in Emails : SelectUser(e)
    \/ FetchData
    \/ \E i \in Runs : \E r \in AllResponses : FeedbackResponse(i, r)
    \/ \E i \in Runs : \E r \in AllResponses : ItemsResponse(i, r)

Spec == Init /\ [][Next]_vars

\* The component driven through its select only.
SelectorNext ==
    \/ \E r \in LatestResponses : LatestUsersResponse(r)
    \/ \E r \in UsersResponses : UsersResponse(r)
    \/ \E e \in Emails : SelectOption(e)
    \/ FetchData
    \/ \E i \in Runs : \E r \in AllResponses : FeedbackResponse(i, r)
    \/ \E i \in Runs : \E r \in AllResponses : ItemsResponse(i, r)

SelectorSpec == Init /\ [][SelectorNext]_vars

\* A query response: the remote service answers.
Respond ==
    \E i \in Runs : \E r \in AllResponses :
        FeedbackResponse(i, r) \/ ItemsResponse(i, r)

\* A scheduled effect runs, and while a query is outstanding some
\* outstanding query is eventually answered.
FairSpec == Spec /\ WF_vars(FetchData) /\ WF_vars(Respond)

\* ------------------------------------------------------------ properties
\* Some run of fetchData is between issuing its queries and resuming.
InFlight == \E i \in 1..Len(fetches) : fetches[i].status = "inflight"

\* Numbers of feedback and of items queries issued so far.
FbIssued == Cardinality({i \in 1..Len(fetches) : fetches[i].fbUid # 0})
ItIssued == Cardinality({i \in 1..Len(fetches) : fetches[i].itUid # 0})

\* Run i resumes after Promise.all in this step; resumed' holds the two
\* responses it resumes with.
Resumes(i) ==
    /\ i \in 1..Len(fetches)
    /\ fetches[i].status = "inflight"
    /\ fetches'[i].status # "inflight"
    /\ resumed'.run = i

\* C1: loading is true exactly while a detail fetch has started and has not
\* yet resolved, also when fetches overlap.
C1_LoadingIffInFlight == loading <=> InFlight

\* C2: a run that resumes with two successful responses replaces feedback
\* and items by them whatever has been selected or fetched since; nothing
\* cancels or discards a superseded run.
C2_SupersededRunLands ==
    [][\A i \in Runs :
          (Resumes(i) /\ resumed'.fb.st = "ok" /\ resumed'.it.st = "ok")
              => /\ feedback' = (IF resumed'.fb.isNull THEN <<>>
                                 ELSE resumed'.fb.rows)
                 /\ items' = (IF resumed'.it.isNull THEN <<>>
                              ELSE resumed'.it.rows)]_vars

\* C2 witness: "a" then "b" were selected, both runs succeeded, the run
\* for "a" resumed last, nothing is in flight, "b" is still selected, and
\* feedback/items are the rows of user 1 fetched by the run for "a".
C2_Witness ==
    /\ Len(fetches) = 2
    /\ fetches[1].email = "a" /\ fetches[1].status = "ok"
    /\ fetches[2].email = "b" /\ fetches[2].status = "ok"
    /\ resumed = [run |-> 1, fb |-> OkRes(FeedbackRows(1, 1)),
                  it |-> OkRes(ItemRows(1, 1))]
    /\ ~InFlight /\ ~effectPending
    /\ selectedEmail = "b"
    /\ feedback = FeedbackRows(1, 1)
    /\ items = ItemRows(1, 1)

\* C3: a run one of whose queries returned an error resumes without
\* replacing feedback or items and sets error to 'Failed to load data'.
C3_AllOrNothing ==
    [][\A i \in Runs :
          (Resumes(i) /\ (resumed'.fb.st = "error" \/ resumed'.it.st = "error"))
              => /\ feedback' = feedback
                 /\ items' = items
                 /\ error' = FailedToLoadData]_vars

\* C3 witness: the feedback query failed, the items query returned rows,
\* and items is still the initial empty list.
C3_Witness ==
    /\ Len(fetches) = 1
    /\ fetches[1].status = "failed"
    /\ resumed = [run |-> 1, fb |-> ErrRes,
                  it |-> OkRes(ItemRows(fetches[1].itUid, 1))]
    /\ feedback = <<>> /\ items = <<>>
    /\ error = FailedToLoadData

\* C4: fetchData run with a non-empty selection that equals no loaded
\* user's email issues no query, sets error to 'Failed to load data', ends
\* with loading false and leaves feedback and items alone.
C4_UserNotFoundIsLocal ==
    [][(/\ effectPending /\ ~effectPending'
        /\ ~Falsy(selectedEmail)
        /\ \A k \in 1..Len(users) : users[k].email # selectedEmail)
          => /\ FbIssued' = FbIssued
             /\ ItIssued' = ItIssued
             /\ ~InFlight' \/ InFlight
             /\ error' = FailedToLoadData
             /\ loading' = FALSE
             /\ feedback' = feedback
             /\ items' = items]_vars

\* C4 witness: "A" was selected while the loaded users hold "a".
C4_Witness ==
    /\ \E i \in 1..Len(fetches) :
          fetches[i].email = "A" /\ fetches[i].status = "notfound"
    /\ \E k \in 1..Len(users) : users[k].email = "a"
    /\ selectedEmail = "A"
    /\ FbIssued = 0 /\ ItIssued = 0
    /\ error = FailedToLoadData /\ ~loading

\* C5: the two queries of a run are filtered by one user_id, that of the
\* first loaded user whose email is the selection the run started with.
C5_SameUserId ==
    \A i \in 1..Len(fetches) :
        fetches[i].status # "notfound" =>
            /\ fetches[i].fbUid = fetches[i].itUid
            /\ \E k \in 1..Len(users) :
                  /\ users[k].email = fetches[i].email
                  /\ \A j \in 1..(k - 1) : users[j].email # fetches[i].email
                  /\ users[k].user_id = fetches[i].fbUid

\* C5 witness: two loaded users share "a" and a run for "a" has issued its
\* queries.
C5_Witness ==
    /\ Len(users) = 3 /\ users[1].email = "a" /\ users[2].email = "a"
    /\ \E i \in 1..Len(fetches) :
          /\ fetches[i].email = "a"
          /\ fetches[i].fbUid = 1 /\ fetches[i].itUid = 1

\* C6: in the state right after a run resumes with two successful
\* responses, error is null and loading is false.
C6_SuccessClearsError ==
    [][\A i \in Runs :
          (Resumes(i) /\ resumed'.fb.st = "ok" /\ resumed'.it.st = "ok")
              => (error' = Null /\ loading' = FALSE)]_vars

\* C7: with every issued query answered, loading = true leads to
\* loading = false, and loading is false whenever no run is in flight.
C7_LoadingCleared ==
    /\ [](~InFlight => ~loading)
    /\ (loading ~> ~loading)

\* C7 witness: one run has ended by a query error and one by 'User not
\* found', nothing is in flight and loading is false.
C7_Witness ==
    /\ ~loading /\ ~InFlight
    /\ \E i \in 1..Len(fetches) : fetches[i].status = "failed"
    /\ \E i \in 1..Len(fetches) : fetches[i].status = "notfound"

\* C8: an error response of the all-users query sets error to 'Failed to
\* load users' and leaves users empty; a successful one replaces users by
\* the result (empty for null) and leaves error alone.
C8_FetchUsersOutcome ==
    [][(usersRes.st = "pending" /\ usersRes'.st # "pending")
          => IF usersRes'.st = "error"
             THEN error' = FailedToLoadUsers /\ users' = users /\ users' = <<>>
             ELSE /\ users' = (IF usersRes'.isNull THEN <<>> ELSE usersRes'.rows)
                  /\ error' = error]_vars

\* C8 witness: the all-users query has failed.
C8_Witness ==
    /\ usersRes.st = "error"
    /\ error = FailedToLoadUsers
    /\ users = <<>>

\* C9: an error response of the recent-users query changes no cell.
C9_LatestUsersFailureSilent ==
    [][(latestRes.st = "pending" /\ latestRes'.st = "error")
          => UNCHANGED <<latestUsers, users, selectedEmail, feedback, items,
                         loading, error>>]_vars

\* C9 witness: the recent-users query has failed after the all-users query
\* succeeded, and no message is shown.
C9_Witness ==
    /\ latestRes.st = "error"
    /\ usersRes.st = "ok"
    /\ latestUsers = <<>>
    /\ error = Null

\* C10: queries are issued only by the run of fetchData a triggering event
\* schedules, one feedback and one items query at most per event, so the
\* queries issued never outnumber the triggering events.
C10_NoRetries ==
    /\ [](/\ FbIssued <= triggers
          /\ ItIssued <= triggers
          /\ Len(fetches) <= triggers)
    /\ [][(FbIssued' # FbIssued \/ ItIssued' # ItIssued)
            => /\ effectPending /\ ~effectPending'
               /\ FbIssued' <= FbIssued + 1
               /\ ItIssued' <= ItIssued + 1]_vars

\* C10 witness: one triggering event, its run has failed, and one query of
\* each kind has been issued.
C10_Witness ==
    /\ triggers = 1
    /\ Len(fetches) = 1 /\ fetches[1].status = "failed"
    /\ FbIssued = 1 /\ ItIssued = 1
    /\ ~effectPending
\* C11: the select's option list is the empty-valued placeholder followed
\* by one option per loaded user in the order of users, so its length is
\* the length of users plus one.
C11_OptionCount ==
    /\ Len(Options(users)) = Len(users) + 1
    /\ Options(users)[1] = ""
    /\ \A k \in 1..Len(users) : Options(users)[k + 1] = users[k].email

\* C11 witness: three users are loaded, two of them with the same email,
\* and the select has four options.
C11_Witness ==
    /\ usersRes.st = "ok"
    /\ Len(users) = 3
    /\ Options(users) = <<"", "a", "a", "b">>
\* C12: every rendered feedback record shows 'Yes' when was_correct is
\* true and 'No' for every other value (false, null, absent); no third
\* text exists.
C12_WasCorrectTwoValued ==
    \A k \in 1..Len(feedback) :
        /\ FeedbackView[k] \in {"Yes", "No"}
        /\ FeedbackView[k] = "Yes" <=> feedback[k].was_correct = "true"
        /\ feedback[k].was_correct \in {"false", "null", "undefined"}
              => FeedbackView[k] = "No"

\* C12 witness: the rendered feedback holds a record with was_correct
\* null, one with the field absent and one with true, shown as 'No', 'No'
\* and 'Yes'.
C12_Witness ==
    /\ \E k \in 1..Len(feedback) :
          feedback[k].was_correct = "null" /\ FeedbackView[k] = "No"
    /\ \E k \in 1..Len(feedback) :
          feedback[k].was_correct = "undefined" /\ FeedbackView[k] = "No"
    /\ \E k \in 1..Len(feedback) :
          feedback[k].was_correct = "true" /\ FeedbackView[k] = "Yes"
\* C13: feedback and items change only together, in the step in which a
\* run resumes with two successful responses, and both become that run's
\* results; so their rows never come from different runs or user_ids.
C13_ListsFromOneFetch ==
    /\ [](\A j \in 1..Len(feedback) : \A k \in 1..Len(items) :
              /\ feedback[j].snap = items[k].snap
              /\ feedback[j].user_id = items[k].user_id)
    /\ [][(feedback' # feedback \/ items' # items)
            => \E i \in Runs :
                  /\ Resumes(i)
                  /\ resumed'.fb.st = "ok" /\ resumed'.it.st = "ok"
                  /\ feedback' = (IF resumed'.fb.isNull THEN <<>>
                                  ELSE resumed'.fb.rows)
                  /\ items' = (IF resumed'.it.isNull THEN <<>>
                               ELSE resumed'.it.rows)]_vars

\* C13 witness: two runs overlap; the first has received its feedback
\* response and still awaits its items response, the second has resumed,
\* and feedback and items are both the second run's rows.
C13_Witness ==
    /\ Len(fetches) = 2
    /\ fetches[1].status = "inflight"
    /\ fetches[1].fb.st = "ok" /\ fetches[1].it.st = "pending"
    /\ resumed.run = 2
    /\ fetches[2].fbUid # fetches[1].fbUid
    /\ feedback = FeedbackRows(fetches[2].fbUid, 2)
    /\ items = ItemRows(fetches[2].itUid, 2)
\* C14: selecting the empty string, and the run of fetchData it schedules,
\* issue no query and leave feedback, items, loading and error as they
\* were.
C14_ClearSelectionKeepsState ==
    [][(\/ selectedEmail # "" /\ selectedEmail' = ""
        \/ effectPending /\ ~effectPending' /\ selectedEmail = "")
          => UNCHANGED <<feedback, items, loading, error, fetches>>]_vars

\* C14 witness: the selection has been cleared, its effect has run, and
\* the lists still hold the rows fetched for the user selected before.
C14_Witness ==
    /\ selectedEmail = "" /\ ~effectPending
    /\ Len(fetches) = 1 /\ fetches[1].status = "ok"
    /\ feedback = FeedbackRows(fetches[1].fbUid, 1)
    /\ items = ItemRows(fetches[1].itUid, 1)
    /\ ~loading
\* C15: when selections come only from the select's options, selectedEmail
\* is null, the empty string or the email of a loaded user, and no run of
\* fetchData ends with 'User not found'.
C15_SelectorNeverMisses ==
    /\ \/ selectedEmail \in {Null, ""}
       \/ \E k \in 1..Len(users) : users[k].email = selectedEmail
    /\ \A i \in 1..Len(fetches) : fetches[i].status # "notfound"
    /\ error # FailedToLoadData
          \/ \E i \in 1..Len(fetches) : fetches[i].status = "failed"

\* C15 witness: both loaded emails were picked in turn from the select
\* and each run issued its queries.
C15_Witness ==
    /\ Len(fetches) = 2
    /\ fetches[1].email = "b" /\ fetches[1].fbUid = 2
    /\ fetches[2].email = "a" /\ fetches[2].fbUid = 1
    /\ selectedEmail = "a"
    /\ ~InFlight
\* C16: each mount-time query is answered once, and latestUsers, users and
\* (until fetchData first runs) error are determined by the two responses
\* alone, whichever arrived first and whatever the other's outcome.
C16_MountQueriesIndependent ==
    /\ [](/\ latestUsers = (IF latestRes.st = "ok" /\ ~latestRes.isNull
                             THEN latestRes.rows ELSE <<>>)
          /\ users = (IF usersRes.st = "ok" /\ ~usersRes.isNull
                       THEN usersRes.rows ELSE <<>>)
          /\ Len(fetches) = 0
                => error = (IF usersRes.st = "error" THEN FailedToLoadUsers
                            ELSE Null))
    /\ [][/\ latestRes' # latestRes => latestRes.st = "pending"
          /\ usersRes' # usersRes => usersRes.st = "pending"]_vars

\* C16 witness: the recent-users query succeeded and the all-users query
\* failed; the recent users are shown and the message is the users one.
C16_Witness ==
    /\ latestRes.st = "ok" /\ Len(latestUsers) = 2
    /\ usersRes.st = "error"
    /\ users = <<>>
    /\ error = FailedToLoadUsers
    /\ Len(fetches) = 0
====
